---- MODULE Spec2Model ----
(***************************************************************************)
(* Model of the memory backend of the RISC-V instruction level simulator   *)
(* (447src/memory.c, 447include/memory.h) and of the step and go commands  *)
(* of its shell (src/commands.c).                                          *)
(*                                                                         *)
(* Scaling.  uint32_t addresses and sizes are modelled AddrBits wide, with *)
(* every uint32_t computation reduced modulo 2^AddrBits.  The address      *)
(* layout keeps the shape of the original one: five ascending regions, a   *)
(* hole below user text and between the stack and kernel text, and a       *)
(* kernel data region that runs to one byte short of the top of the        *)
(* address space.  Data words keep their 32 bits; the sampled words have   *)
(* bit 31 clear because the model checker's integers are 32-bit signed.    *)
(***************************************************************************)
EXTENDS Integers, Sequences, FiniteSets, TLC

(***************************************************************************)
(* Bounds of the model                                                     *)
(***************************************************************************)
AddrBits == 6
\* the buffers the heap may hold when mem_load_program is called
MaxHeap == 10
\* the record files that may be left open when mem_load_program is called
MaxOpenFiles == 1
\* how often free() may have been given a buffer when mem_unload_program is
\* called
MaxFrees == 1
\* the instructions run_simulator may have executed when it is called
MaxInstrCount == 2

(***************************************************************************)
(* Integer types                                                           *)
(***************************************************************************)
UINT32_MAX == 2^AddrBits - 1

\* uint32_t arithmetic: the result of an unsigned computation, truncated
U32(x) == x % (UINT32_MAX + 1)

Addr == 0 .. UINT32_MAX

(***************************************************************************)
(* Address layout (riscv_abi.h memory segments) and error numbers          *)
(***************************************************************************)
USER_TEXT_START == 4
USER_DATA_START == 16
STACK_END == 36
STACK_SIZE == 8
STACK_START == STACK_END - STACK_SIZE
KERNEL_TEXT_START == 40
KERNEL_DATA_START == 52

ENOENT == 2
EFBIG == 27
EINVAL == 22

REG_SP == 2
REG_GP == 3
RISCV_NUM_REGS == 32

NUM_MEM_REGIONS == 5
MEM_FILE_LINE_LEN == 8 + 1
NULL == 0
NO_EXTENSION == "NULL"

USER_TEXT_REGION ==
    [base_addr |-> USER_TEXT_START,
     max_size |-> USER_DATA_START - USER_TEXT_START,
     size |-> 0, mem |-> NULL, hex_extension |-> ".text.hex"]

USER_DATA_REGION ==
    [base_addr |-> USER_DATA_START,
     max_size |-> STACK_START - USER_DATA_START,
     size |-> 0, mem |-> NULL, hex_extension |-> ".data.hex"]

STACK_REGION_BelowEnd ==
    [base_addr |-> STACK_END - STACK_SIZE - 4,
     max_size |-> STACK_SIZE,
     size |-> 0, mem |-> NULL, hex_extension |-> NO_EXTENSION]

STACK_REGION_AtEnd ==
    [base_addr |-> STACK_END,
     max_size |-> STACK_SIZE,
     size |-> 0, mem |-> NULL, hex_extension |-> NO_EXTENSION]

STACK_REGION ==
    [base_addr |-> STACK_END - STACK_SIZE,
     max_size |-> STACK_SIZE,
     size |-> 0, mem |-> NULL, hex_extension |-> NO_EXTENSION]

KERNEL_TEXT_REGION ==
    [base_addr |-> KERNEL_TEXT_START,
     max_size |-> KERNEL_DATA_START - KERNEL_TEXT_START,
     size |-> 0, mem |-> NULL, hex_extension |-> ".ktext.hex"]

KERNEL_DATA_REGION ==
    [base_addr |-> KERNEL_DATA_START,
     max_size |-> UINT32_MAX - KERNEL_DATA_START,
     size |-> 0, mem |-> NULL, hex_extension |-> ".kdata.hex"]

\* indexed 1..NUM_MEM_REGIONS here, 0..NUM_MEM_REGIONS-1 in the source
MEM_REGIONS ==
    <<USER_TEXT_REGION, USER_DATA_REGION, STACK_REGION, KERNEL_TEXT_REGION,
      KERNEL_DATA_REGION>>

\* the state of a mem_region_t after memset(.., 0, ..)
ZeroRegion ==
    [base_addr |-> 0, max_size |-> 0, size |-> 0, mem |-> NULL,
     hex_extension |-> NO_EXTENSION]

RegionIdx == 1 .. NUM_MEM_REGIONS

HexExtensions ==
    {MEM_REGIONS[i].hex_extension : i \in RegionIdx} \ {NO_EXTENSION}

(***************************************************************************)
(* Bytes and words                                                         *)
(***************************************************************************)
\* the content of a byte malloc returned and nobody wrote: indeterminate
UNINIT == 256

\* get_byte(value, byte): byte number `byte` of a word, 0 the least significant
get_byte(value, byte) == (value \div (256 ^ byte)) % 256

\* set_byte(value, byte): a byte moved to position `byte` of a word
set_byte(value, byte) == value * (256 ^ byte)

\* 0x11223344
Word11223344 == set_byte(17, 3) + set_byte(34, 2) + set_byte(51, 1) + 68

\* 0x7FFFFFFF
WordMax31 == set_byte(127, 3) + set_byte(255, 2) + set_byte(255, 1) + 255

Values == {0, 10, Word11223344, WordMax31}

(***************************************************************************)
(* mem_read_word, mem_write_word on a buffer.  A buffer's bytes are a      *)
(* sequence, byte k of the buffer at index k + 1.  A pointer is a record   *)
(* [buf, off]: the buffer (NULL for none) and the offset into it.          *)
(***************************************************************************)
\* whether all of mem_addr[0..3] lie inside a buffer of `len` bytes
WordInBuffer(len, off) == off + 4 <= len

\* mem_addr[k] = byte, when mem_addr[k] is a byte of the buffer
put_byte(data, off, k, byte) ==
    IF off + k < Len(data) THEN [data EXCEPT ![off + k + 1] = byte] ELSE data

mem_write_word_BigEndian(data, off, value) ==
    put_byte(put_byte(put_byte(put_byte(data,
        off, 0, get_byte(value, 3)),
        off, 1, get_byte(value, 2)),
        off, 2, get_byte(value, 1)),
        off, 3, get_byte(value, 0))

\* mem_addr[k] = get_byte(value, k) for k = 0..3; bytes past the end of the
\* buffer land outside the model's view of it (the caller records them)
mem_write_word(data, off, value) ==
    put_byte(put_byte(put_byte(put_byte(data,
        off, 0, get_byte(value, 0)),
        off, 1, get_byte(value, 1)),
        off, 2, get_byte(value, 2)),
        off, 3, get_byte(value, 3))

mem_read_word_BigEndian(data, off) ==
    set_byte(data[off + 1], 3) + set_byte(data[off + 2], 2)
        + set_byte(data[off + 3], 1) + set_byte(data[off + 4], 0)

\* value |= set_byte(mem_addr[k], k) for k = 0..3 (the bytes do not overlap,
\* so the bitwise or is a sum); defined for four initialised bytes
mem_read_word(data, off) ==
    set_byte(data[off + 1], 0) + set_byte(data[off + 2], 1)
        + set_byte(data[off + 3], 2) + set_byte(data[off + 4], 3)

\* whether the four bytes at `off` are inside the buffer and were written
WordDefined(data, off) ==
    /\ WordInBuffer(Len(data), off)
    /\ \A k \in 0 .. 3 : data[off + 1 + k] # UNINIT

(***************************************************************************)
(* Record files.  A file is its sequence of bytes (characters); a program  *)
(* is what the file system holds under each hex extension.                 *)
(***************************************************************************)
HexDigits == <<"0", "1", "2", "3", "4", "5", "6", "7", "8", "9",
               "A", "B", "C", "D", "E", "F">>

IsHexDigit(c) == \E i \in 1 .. 16 : HexDigits[i] = c

HexDigitValue(c) == (CHOOSE i \in 1 .. 16 : HexDigits[i] = c) - 1

RECURSIVE StripLeadingZeros(_)
StripLeadingZeros(text) ==
    IF Len(text) > 1 /\ Head(text) = "0" THEN StripLeadingZeros(Tail(text))
    ELSE text

RECURSIVE HexValue(_, _)
HexValue(text, acc) ==
    IF text = <<>> THEN acc
    ELSE HexValue(Tail(text), acc * 16 + HexDigitValue(Head(text)))

\* parse_uint32_hex(line, &value): [rc, value]; rc < 0 when the text is not
\* an unsigned 32-bit hexadecimal literal
parse_uint32_hex(text) ==
    LET digits == StripLeadingZeros(text) IN
    IF /\ Len(text) > 0
       /\ \A i \in 1 .. Len(text) : IsHexDigit(text[i])
       /\ Len(digits) <= 8
    THEN [rc |-> 0, value |-> HexValue(digits, 0)]
    ELSE [rc |-> -EINVAL, value |-> 0]

\* strcspn(line, "\r\n"): the length of the prefix without \r and \n
RECURSIVE strcspn_crlf(_)
strcspn_crlf(line) ==
    IF line = <<>> \/ Head(line) = "\n" \/ Head(line) = "\r" THEN 0
    ELSE 1 + strcspn_crlf(Tail(line))

\* the index of the first "\n" of bytes at or after index i, 0 when none
RECURSIVE NextNewline(_, _)
NextNewline(bytes, i) ==
    IF i > Len(bytes) THEN 0
    ELSE IF bytes[i] = "\n" THEN i
    ELSE NextNewline(bytes, i + 1)

\* getline(&line, &buf_size, hex_file) with `pos` bytes of the file read:
\* the next line with its newline, or rc = -1 at the end of the file; the
\* stream's end-of-file indicator is set when the read ran into the end
getline(bytes, pos) ==
    LET nl == NextNewline(bytes, pos + 1) IN
    IF pos >= Len(bytes)
    THEN [rc |-> -1, line |-> <<>>, pos |-> pos, eof |-> TRUE]
    ELSE IF nl = 0
    THEN [rc |-> Len(bytes) - pos, line |-> SubSeq(bytes, pos + 1, Len(bytes)),
          pos |-> Len(bytes), eof |-> TRUE]
    ELSE [rc |-> nl - pos, line |-> SubSeq(bytes, pos + 1, nl),
          pos |-> nl, eof |-> FALSE]

(***************************************************************************)
(* The file system: the record files and the programs made of them         *)
(***************************************************************************)
NL == <<"\n">>
Text0000000A == <<"0", "0", "0", "0", "0", "0", "0", "A">>
Text00000014 == <<"0", "0", "0", "0", "0", "0", "1", "4">>
TextZZZZZZZZ == <<"Z", "Z", "Z", "Z", "Z", "Z", "Z", "Z">>

RECURSIVE Lines(_, _)
Lines(text, count) ==
    IF count = 0 THEN <<>> ELSE text \o NL \o Lines(text, count - 1)

\* one more line than the largest region with a record file can hold
OversizeLines == 1 + (USER_DATA_START - USER_TEXT_START) \div 4

FileBytes(name) ==
    CASE name = "one" -> Text0000000A \o NL
      [] name = "two" -> Text0000000A \o NL \o Text00000014 \o NL
      [] name = "empty" -> <<>>
      [] name = "oversize" -> Lines(Text0000000A, OversizeLines)
      [] name = "bad_first" -> TextZZZZZZZZ \o NL
      [] name = "bad_last" -> Text0000000A \o NL \o TextZZZZZZZZ \o NL
      [] name = "bad_last_no_newline" -> Text0000000A \o NL \o TextZZZZZZZZ
      [] name = "no_final_newline" -> Text0000000A \o NL \o Text00000014
      [] OTHER -> <<>>

\* what fopen(hex_path, "r") finds
File(name) == [exists |-> name # "missing", bytes |-> FileBytes(name)]

\* the program every sampled program is a variation of
GoodProgram ==
    [ext \in HexExtensions |-> IF ext = ".text.hex" THEN "two" ELSE "one"]

\* the record files replaced in it, one at a time
Replacements ==
    {<<".text.hex", "one">>,
     <<".text.hex", "missing">>, <<".text.hex", "bad_last_no_newline">>,
     <<".text.hex", "no_final_newline">>, <<".text.hex", "bad_first">>,
     <<".data.hex", "oversize">>, <<".data.hex", "bad_last">>,
     <<".ktext.hex", "missing">>, <<".ktext.hex", "bad_last">>,
     <<".kdata.hex", "oversize">>, <<".kdata.hex", "bad_last">>,
     <<".kdata.hex", "empty">>}

\* the programs tried
Programs ==
    {[GoodProgram EXCEPT ![r[1]] = r[2]] : r \in Replacements}
        \cup {GoodProgram}

NoProgram == [ext \in HexExtensions |-> "-"]

(***************************************************************************)
(* load_hex_file                                                           *)
(***************************************************************************)
\* the while loop of load_hex_file from the point where getline returned g:
\* [rc, eof, data, overflow, line_num], eof being feof(hex_file) at the exit
RECURSIVE hex_file_loop(_, _, _, _, _)
hex_file_loop(bytes, g, line_num, data, overflow) ==
    IF g.rc < 0
    THEN [rc |-> g.rc, eof |-> g.eof, data |-> data, overflow |-> overflow,
          parse_error |-> FALSE, line_num |-> line_num]
    ELSE LET text == SubSeq(g.line, 1, strcspn_crlf(g.line))
             parsed == parse_uint32_hex(text)
             offset == line_num * 4
         IN  IF parsed.rc < 0
             THEN [rc |-> parsed.rc, eof |-> g.eof, data |-> data,
                   overflow |-> overflow, parse_error |-> TRUE,
                   line_num |-> line_num]
             ELSE hex_file_loop(bytes, getline(bytes, g.pos), line_num + 1,
                                mem_write_word(data, offset, parsed.value),
                                overflow \/ ~WordInBuffer(Len(data), offset))

\* load_hex_file(mem_region, hex_file, hex_path) on the region's buffer
\* content `data`: returns (feof(hex_file)) ? 0 : rc
load_hex_file(bytes, data) ==
    LET r == hex_file_loop(bytes, getline(bytes, 0), 0, data, FALSE) IN
    [rc |-> IF r.eof THEN 0 ELSE r.rc, data |-> r.data,
     overflow |-> r.overflow, parse_error |-> r.parse_error,
     line_num |-> r.line_num]

(***************************************************************************)
(* The heap: buffer b is heap[b]; `cur` says that the most recent call of  *)
(* mem_load_program allocated it, nfree how often free() was given it.     *)
(***************************************************************************)
\* malloc(size): a new buffer of uninitialised bytes (malloc(0) returns a
\* pointer to a buffer of no bytes); the exit on a NULL result is not modelled
RECURSIVE Uninitialised(_)
Uninitialised(size) ==
    IF size = 0 THEN <<>> ELSE Append(Uninitialised(size - 1), UNINIT)

malloc(h, size) ==
    Append(h, [len |-> size, live |-> TRUE, nfree |-> 0, cur |-> TRUE,
                  data |-> Uninitialised(size)])

\* free(b) on one heap cell
free_cell(cell) ==
    [cell EXCEPT !.live = FALSE, !.nfree = cell.nfree + 1, !.data = <<>>]

\* malloc_mem_region(mem_region): [region, heap]
malloc_mem_region(region, h) ==
    [region |-> [region EXCEPT !.mem = Len(h) + 1],
     heap |-> malloc(h, region.size)]

(***************************************************************************)
(* load_mem_region                                                         *)
(***************************************************************************)
load_mem_region_NoSizeCheck(region, file, h) ==
    IF ~file.exists
    THEN [rc |-> -ENOENT, region |-> region, heap |-> h, opened |-> 0,
          overflow |-> FALSE, parse_error |-> FALSE]
    ELSE [rc |-> 0,
          region |->
              [region EXCEPT
                  !.size = U32((Len(file.bytes) \div MEM_FILE_LINE_LEN) * 4),
                  !.mem = Len(h) + 1],
          heap |-> malloc(h, U32((Len(file.bytes) \div MEM_FILE_LINE_LEN) * 4)),
          opened |-> 0, overflow |-> FALSE, parse_error |-> FALSE]

\* load_mem_region(mem_region, hex_path) with `file` what fopen finds under
\* hex_path, a file of the file system [exists, bytes]
load_mem_region(region, file, h) ==
    IF ~file.exists
    THEN [rc |-> -ENOENT, region |-> region, heap |-> h, opened |-> 0,
          overflow |-> FALSE, parse_error |-> FALSE]
    ELSE
    LET file_size == Len(file.bytes)
        num_lines == file_size \div MEM_FILE_LINE_LEN
        sized == [region EXCEPT !.size = U32(num_lines * 4)]
    IN  IF sized.size > sized.max_size
        THEN [rc |-> -EFBIG, region |-> sized, heap |-> h, opened |-> 1,
              overflow |-> FALSE, parse_error |-> FALSE]
        ELSE
        LET m == malloc_mem_region(sized, h)
            b == m.region.mem
            r == load_hex_file(file.bytes, m.heap[b].data)
            filled == [m.heap EXCEPT ![b].data = r.data]
        IN  IF r.rc < 0
            THEN [rc |-> r.rc, region |-> [m.region EXCEPT !.mem = NULL],
                  heap |-> [filled EXCEPT ![b] = free_cell(filled[b])],
                  opened |-> 0, overflow |-> r.overflow,
                  parse_error |-> r.parse_error]
            ELSE [rc |-> r.rc, region |-> m.region, heap |-> filled,
                  opened |-> 0, overflow |-> r.overflow,
                  parse_error |-> r.parse_error]

(***************************************************************************)
(* mem_unload_program                                                      *)
(***************************************************************************)
\* the buffers the first n regions of the table point to
RegionBuffers(regions, n) ==
    {regions[i].mem : i \in 1 .. n} \ {NULL}

unload_program_NoFree(regions, n, h) ==
    [heap |-> h, double_free |-> FALSE]

\* free(mem_region->mem) for every region with mem != NULL: [heap, double_free]
unload_program(regions, n, h) ==
    [heap |-> [b \in DOMAIN h |->
                 IF b \in RegionBuffers(regions, n) THEN free_cell(h[b])
                 ELSE h[b]],
     double_free |-> \E b \in RegionBuffers(regions, n) : ~h[b].live]

(***************************************************************************)
(* mem_load_program                                                        *)
(***************************************************************************)
\* the loop over the regions from region i on; st = [regions, heap, rc,
\* opened, overflow, parse_error, double_free]
RECURSIVE load_regions(_, _, _)
\* the failure branch of the loop: mem_unload_program(cpu_state), break
load_failed(st) ==
    [st EXCEPT
       !.heap = unload_program(st.regions, NUM_MEM_REGIONS, st.heap).heap,
       !.double_free =
           unload_program(st.regions, NUM_MEM_REGIONS, st.heap).double_free]

\* the loop body after region i got the outcome r of its allocation or load
region_loaded(i, st, r, program) ==
    IF r.rc < 0
    THEN load_failed([st EXCEPT !.regions[i] = r.region, !.heap = r.heap,
                                !.rc = r.rc,
                                !.opened = st.opened + r.opened,
                                !.overflow = st.overflow \/ r.overflow,
                                !.parse_error = r.parse_error])
    ELSE load_regions(i + 1,
             [st EXCEPT !.regions[i] = r.region, !.heap = r.heap,
                        !.rc = r.rc,
                        !.opened = st.opened + r.opened,
                        !.overflow = st.overflow \/ r.overflow,
                        !.parse_error = r.parse_error],
             program)

\* the outcome of an allocation m = [region, heap] that cannot fail
allocated(m) ==
    [rc |-> 0, region |-> m.region, heap |-> m.heap, opened |-> 0,
     overflow |-> FALSE, parse_error |-> FALSE]

\* the stack region: size = max_size, then malloc_mem_region
stack_region(mem_region, h) ==
    allocated(malloc_mem_region(
                  [mem_region EXCEPT !.size = mem_region.max_size], h))

load_regions(i, st, program) ==
    IF i > NUM_MEM_REGIONS THEN st
    ELSE IF MEM_REGIONS[i].hex_extension = NO_EXTENSION
    THEN region_loaded(i, st, stack_region(MEM_REGIONS[i], st.heap), program)
    ELSE region_loaded(i, st,
             load_mem_region(MEM_REGIONS[i],
                 File(program[MEM_REGIONS[i].hex_extension]), st.heap),
             program)

(***************************************************************************)
(* mem_find_address, mem_range_valid                                       *)
(***************************************************************************)
NullPtr == [buf |-> NULL, off |-> 0]

\* the loop of mem_find_address from region i on: &mem_region->mem[offset] of
\* the first region with base_addr <= addr < region_end_addr, else NULL
RECURSIVE find_address_from(_, _, _, _)
find_address_from(i, regions, n, addr) ==
    IF i > n THEN NullPtr
    ELSE LET mem_region == regions[i]
             region_end_addr == U32(mem_region.base_addr + mem_region.size)
         IN  IF mem_region.base_addr <= addr /\ addr < region_end_addr
             THEN [buf |-> mem_region.mem,
                   off |-> U32(addr - mem_region.base_addr)]
             ELSE find_address_from(i + 1, regions, n, addr)

find_address_MaxSize(regions, n, addr) ==
    find_address_from(1,
        [i \in DOMAIN regions |->
            [regions[i] EXCEPT !.size = regions[i].max_size]], n, addr)

find_address_AbsoluteOffset(regions, n, addr) ==
    IF find_address_from(1, regions, n, addr) = NullPtr THEN NullPtr
    ELSE [find_address_from(1, regions, n, addr) EXCEPT !.off = addr]

\* mem_find_address(cpu_state, addr) on the table `regions` of n regions
find_address(regions, n, addr) == find_address_from(1, regions, n, addr)

\* the loop of mem_range_valid, after its assert(start_addr < end_addr)
range_valid(regions, n, start_addr, end_addr) ==
    \E i \in 1 .. n :
        LET mem_region == regions[i]
            region_end_addr == U32(mem_region.base_addr + mem_region.size)
        IN  /\ mem_region.base_addr <= start_addr
            /\ end_addr < region_end_addr

(***************************************************************************)
(* mem_read32, mem_write32 as functions of the state                       *)
(***************************************************************************)
\* what dereferencing pointer p for a word does besides the access itself:
\* the undefined behaviour it is, if any
AccessFault(h, p) ==
    IF p.buf = NULL THEN {"wild_pointer"}
    ELSE IF ~h[p.buf].live THEN {"use_after_free"}
    ELSE IF ~WordInBuffer(h[p.buf].len, p.off) THEN {"out_of_bounds"}
    ELSE {}

\* mem_read32(cpu_state, addr): [rets, halted, ub]; rets are the values the
\* call may return (one, unless the bytes read are indeterminate), halted
\* whether it sets cpu_state->halted
read32(regions, n, h, addr) ==
    LET p == find_address(regions, n, addr) IN
    IF p = NullPtr THEN [rets |-> {0}, halted |-> TRUE, ub |-> {}]
    ELSE IF AccessFault(h, p) # {} \/ ~WordDefined(h[p.buf].data, p.off)
    THEN [rets |-> Values, halted |-> FALSE, ub |-> AccessFault(h, p)]
    ELSE [rets |-> {mem_read_word(h[p.buf].data, p.off)},
          halted |-> FALSE, ub |-> {}]

\* mem_write32(cpu_state, addr, value): [heap, halted, ub]
write32(regions, n, h, addr, value) ==
    LET p == find_address(regions, n, addr) IN
    IF p = NullPtr THEN [heap |-> h, halted |-> TRUE, ub |-> {}]
    ELSE IF p.buf = NULL \/ ~h[p.buf].live
    THEN [heap |-> h, halted |-> FALSE, ub |-> AccessFault(h, p)]
    ELSE [heap |-> [h EXCEPT ![p.buf].data =
                        mem_write_word(@, p.off, value)],
          halted |-> FALSE, ub |-> AccessFault(h, p)]

(***************************************************************************)
(* The step and go commands                                                *)
(***************************************************************************)
STEP_MAX_NUM_ARGS == 1
GO_NUM_ARGS == 0

\* the decimal digits and their values
DecDigits == <<"0", "1", "2", "3", "4", "5", "6", "7", "8", "9">>

IsDecDigit(c) == \E d \in DOMAIN DecDigits : DecDigits[d] = c

DecDigitValue(c) == (CHOOSE d \in DOMAIN DecDigits : DecDigits[d] = c) - 1

RECURSIVE DecValue(_)
DecValue(text) ==
    IF text = <<>> THEN 0
    ELSE 10 * DecValue(SubSeq(text, 1, Len(text) - 1))
             + DecDigitValue(text[Len(text)])

\* parse_int(string, &value): [rc, value]; a decimal literal with an
\* optional minus sign, anything else is an error and leaves value as it was
parse_int(text, value) ==
    IF /\ text # <<>> /\ text[1] = "-" /\ Len(text) > 1
       /\ \A k \in 2 .. Len(text) : IsDecDigit(text[k])
    THEN [rc |-> 0, value |-> -DecValue(SubSeq(text, 2, Len(text)))]
    ELSE IF text # <<>> /\ \A k \in 1 .. Len(text) : IsDecDigit(text[k])
    THEN [rc |-> 0, value |-> DecValue(text)]
    ELSE [rc |-> -EINVAL, value |-> value]

\* the instructions process_instruction may find at pc: an instruction that
\* touches registers only, an ecall that asks to halt, a load, a store
Instructions ==
    {[kind |-> "alu", addr |-> 0, value |-> 0],
     [kind |-> "ecall_halt", addr |-> 0, value |-> 0],
     [kind |-> "lw", addr |-> 0, value |-> 0],
     [kind |-> "sw", addr |-> USER_TEXT_START + 4, value |-> Word11223344]}

\* process_instruction(cpu_state) executing instr: [heap, halted, ub], halted
\* being whether it sets cpu_state->halted; what it does to pc and the
\* registers is not modelled
process_instruction(instr, regions, n, h) ==
    IF instr.kind = "lw"
    THEN [heap |-> h,
          halted |-> read32(regions, n, h, instr.addr).halted,
          ub |-> read32(regions, n, h, instr.addr).ub]
    ELSE IF instr.kind = "sw"
    THEN [heap |-> write32(regions, n, h, instr.addr, instr.value).heap,
          halted |-> write32(regions, n, h, instr.addr, instr.value).halted,
          ub |-> write32(regions, n, h, instr.addr, instr.value).ub]
    ELSE [heap |-> h, halted |-> instr.kind = "ecall_halt", ub |-> {}]

step_condition_IgnoresHalted(i, num_cycles, is_halted) ==
    i < num_cycles

step_condition_OffByOne(i, num_cycles, is_halted) ==
    i <= num_cycles /\ ~is_halted

\* the condition of the loop of command_step
step_condition(i, num_cycles, is_halted) ==
    i < num_cycles /\ ~is_halted

go_condition_Inverted(is_halted) ==
    is_halted

\* the condition of the loop of command_go
go_condition(is_halted) ==
    ~is_halted

(***************************************************************************)
(* Inputs: the addresses and words tried                                   *)
(***************************************************************************)
\* the addresses the accessors are called with
AddrSamples == {0, USER_TEXT_START + 4, STACK_END - 2}

\* the addresses mem_read32 is called with: those, and an unaligned address
\* whose four bytes lie inside the stack region
ReadAddrs == AddrSamples \cup {STACK_START + 2}

FindAddrs == {USER_TEXT_START + 4, STACK_START + 4, KERNEL_DATA_START + 4}

WriteValues == {0, Word11223344, WordMax31}

RangeSamples ==
    {<<USER_TEXT_START, USER_TEXT_START + 7>>,
     <<USER_TEXT_START + 4, USER_DATA_START>>,
     <<STACK_START, STACK_END - 1>>,
     <<KERNEL_DATA_START, KERNEL_DATA_START + 4>>,
     <<USER_TEXT_START + 4, USER_TEXT_START>>}

\* the argument lists the step and go commands are called with
StepArgs ==
    {<<>>, <<<<"2">>>>, <<<<"0">>>>, <<<<"-", "1">>>>, <<<<"x">>>>,
     <<<<"2">>, <<"2">>>>}

GoArgs == {<<>>, <<<<"2">>>>}

(***************************************************************************)
(* State                                                                   *)
(***************************************************************************)
VARIABLES
    num_mem_regions,    \* cpu_state->memory.num_mem_regions
    mem_regions,        \* cpu_state->memory.mem_regions
    heap,               \* the buffers malloc returned
    halted,             \* cpu_state->halted
    pc,                 \* cpu_state->pc
    regs,               \* cpu_state->regs
    open_files,         \* the record files opened and not closed
    aborted,            \* the process was terminated
    load_state,         \* how the most recent mem_load_program ended, and
                        \* whether a successful one was unloaded since
    instr_count,        \* cpu_state->instr_count
    running,            \* the command whose loop is running: "step", "go",
                        \* or "none"
    loop_num_cycles,    \* num_cycles of the command_step that is running
    loop_i,             \* i of the loop of the command_step that is running
    last                \* the most recent call, its arguments and its result

\* the variables of the commands
cmd_vars == <<instr_count, running, loop_num_cycles, loop_i>>

vars ==
    <<num_mem_regions, mem_regions, heap, halted, pc, regs, open_files,
      aborted, load_state, instr_count, running, loop_num_cycles, loop_i,
      last>>

NoCall ==
    [op |-> "none", returned |-> TRUE, ub |-> {}, program |-> NoProgram,
     addr |-> 0, end_addr |-> 0, value |-> 0, ret |-> 0, ptr |-> NullPtr,
     halted_before |-> FALSE, executed |-> 0, count_before |-> 0,
     first_halt |-> 0]

Init ==
    /\ num_mem_regions = 0
    /\ mem_regions = [i \in RegionIdx |-> ZeroRegion]
    /\ heap = <<>>
    /\ halted = FALSE
    /\ pc = 0
    /\ regs = [r \in 0 .. RISCV_NUM_REGS - 1 |-> 0]
    /\ open_files = 0
    /\ aborted = FALSE
    /\ load_state = "none"
    /\ instr_count = 0
    /\ running = "none"
    /\ loop_num_cycles = 0
    /\ loop_i = 0
    /\ last = NoCall

\* a call that ran into undefined behaviour either goes on or ends the process
Return(call, ub) ==
    \E dies \in IF ub = {} THEN {FALSE} ELSE BOOLEAN :
        /\ aborted' = dies
        /\ last' = [call EXCEPT !.ub = ub, !.returned = ~dies,
                                !.halted_before = halted]

(***************************************************************************)
(* Operations                                                              *)
(***************************************************************************)
\* what is left of the heap once memset has cleared the table: the buffers
\* still allocated, which nothing points to any more (their content can no
\* longer be read or written, and is dropped from the state)
LiveBuffers(h) ==
    LET live == SelectSeq(h, LAMBDA cell : cell.live) IN
    [b \in DOMAIN live |-> [live[b] EXCEPT !.cur = FALSE, !.data = <<>>]]

\* the state of the loop of mem_load_program before the first region
LoadStart ==
    [regions |-> [i \in RegionIdx |-> ZeroRegion], heap |-> <<>>, rc |-> 0,
     opened |-> 0, overflow |-> FALSE, parse_error |-> FALSE,
     double_free |-> FALSE]

\* what the loop of mem_load_program does for each program; its buffers
\* are numbered from 1 and those left from earlier loads after them
LoadOutcome ==
    [program \in Programs |-> load_regions(1, LoadStart, program)]

mem_load_program_RegistersOnSuccess(program) ==
    /\ ~aborted /\ running = "none"
    /\ UNCHANGED cmd_vars
    /\ Len(LiveBuffers(heap)) + NUM_MEM_REGIONS <= MaxHeap
    /\ open_files < MaxOpenFiles
    /\ LET st == LoadOutcome[program] IN
           /\ num_mem_regions' = NUM_MEM_REGIONS
           /\ mem_regions' = st.regions
           /\ heap' = st.heap \o LiveBuffers(heap)
           /\ open_files' = open_files + st.opened
           /\ pc' = IF st.rc < 0 THEN pc ELSE USER_TEXT_START
           /\ regs' = IF st.rc < 0 THEN regs
                      ELSE [regs EXCEPT ![REG_SP] = STACK_END,
                                        ![REG_GP] = USER_DATA_START]
           /\ load_state' = IF st.rc < 0 THEN "failed" ELSE "loaded"
           /\ Return([NoCall EXCEPT !.op = "mem_load_program",
                                    !.program = program, !.ret = st.rc],
                     (IF st.overflow THEN {"out_of_bounds"} ELSE {})
                         \cup (IF st.double_free THEN {"double_free"} ELSE {}))
    /\ UNCHANGED halted

\* int mem_load_program(cpu_state, program_path), the record files of the
\* program being `program`
mem_load_program(program) ==
    /\ ~aborted /\ running = "none"
    /\ UNCHANGED cmd_vars
    /\ Len(LiveBuffers(heap)) + NUM_MEM_REGIONS <= MaxHeap
    /\ open_files < MaxOpenFiles
    /\ LET st == LoadOutcome[program] IN
           /\ num_mem_regions' = NUM_MEM_REGIONS
           /\ mem_regions' = st.regions
           /\ heap' = st.heap \o LiveBuffers(heap)
           /\ open_files' = open_files + st.opened
           /\ pc' = USER_TEXT_START
           /\ regs' = [regs EXCEPT ![REG_SP] = STACK_END,
                                   ![REG_GP] = USER_DATA_START]
           /\ load_state' = IF st.rc < 0 THEN "failed" ELSE "loaded"
           /\ Return([NoCall EXCEPT !.op = "mem_load_program",
                                    !.program = program, !.ret = st.rc],
                     (IF st.overflow THEN {"out_of_bounds"} ELSE {})
                         \cup (IF st.double_free THEN {"double_free"} ELSE {}))
    /\ UNCHANGED halted

\* void mem_unload_program(cpu_state)
mem_unload_program ==
    /\ ~aborted /\ running = "none"
    /\ UNCHANGED cmd_vars
    /\ \A b \in RegionBuffers(mem_regions, num_mem_regions) :
           heap[b].nfree <= MaxFrees
    /\ LET u == unload_program(mem_regions, num_mem_regions, heap) IN
           /\ heap' = u.heap
           /\ Return([NoCall EXCEPT !.op = "mem_unload_program"],
                     IF u.double_free THEN {"double_free"} ELSE {})
    /\ load_state' = IF load_state = "loaded" THEN "unloaded" ELSE load_state
    /\ UNCHANGED <<num_mem_regions, mem_regions, halted, pc, regs, open_files>>

mem_read32_AssignsHalted(addr) ==
    /\ ~aborted /\ running = "none"
    /\ UNCHANGED cmd_vars
    /\ LET r == read32(mem_regions, num_mem_regions, heap, addr) IN
           /\ halted' = r.halted
           /\ \E ret \in r.rets :
                  Return([NoCall EXCEPT !.op = "mem_read32", !.addr = addr,
                             !.ret = ret,
                             !.ptr = find_address(mem_regions,
                                         num_mem_regions, addr)],
                         r.ub)
    /\ UNCHANGED <<num_mem_regions, mem_regions, heap, pc, regs, open_files,
                   load_state>>

\* uint32_t mem_read32(cpu_state, addr)
mem_read32(addr) ==
    /\ ~aborted /\ running = "none"
    /\ UNCHANGED cmd_vars
    /\ LET r == read32(mem_regions, num_mem_regions, heap, addr) IN
           /\ halted' = (halted \/ r.halted)
           /\ \E ret \in r.rets :
                  Return([NoCall EXCEPT !.op = "mem_read32", !.addr = addr,
                             !.ret = ret,
                             !.ptr = find_address(mem_regions,
                                         num_mem_regions, addr)],
                         r.ub)
    /\ UNCHANGED <<num_mem_regions, mem_regions, heap, pc, regs, open_files,
                   load_state>>

\* void mem_write32(cpu_state, addr, value)
mem_write32(addr, value) ==
    /\ ~aborted /\ running = "none"
    /\ UNCHANGED cmd_vars
    /\ LET w == write32(mem_regions, num_mem_regions, heap, addr, value) IN
           /\ halted' = (halted \/ w.halted)
           /\ heap' = w.heap
           /\ Return([NoCall EXCEPT !.op = "mem_write32", !.addr = addr,
                             !.value = value,
                             !.ptr = find_address(mem_regions,
                                         num_mem_regions, addr)],
                     w.ub)
    /\ UNCHANGED <<num_mem_regions, mem_regions, pc, regs, open_files,
                   load_state>>

\* bool mem_range_valid(cpu_state, start_addr, end_addr); the failed assert
\* ends the process
mem_range_valid(start_addr, end_addr) ==
    /\ ~aborted /\ running = "none"
    /\ UNCHANGED cmd_vars
    /\ IF start_addr < end_addr
       THEN /\ aborted' = FALSE
            /\ last' = [NoCall EXCEPT
                            !.op = "mem_range_valid", !.addr = start_addr,
                            !.end_addr = end_addr,
                            !.halted_before = halted,
                            !.ret = IF range_valid(mem_regions,
                                           num_mem_regions, start_addr,
                                           end_addr)
                                    THEN 1 ELSE 0]
       ELSE /\ aborted' = TRUE
            /\ last' = [NoCall EXCEPT
                            !.op = "mem_range_valid", !.addr = start_addr,
                            !.end_addr = end_addr, !.returned = FALSE,
                            !.halted_before = halted]
    /\ UNCHANGED <<num_mem_regions, mem_regions, heap, halted, pc, regs,
                   open_files, load_state>>

\* uint8_t *mem_find_address(cpu_state, addr)
mem_find_address(addr) ==
    /\ ~aborted /\ running = "none"
    /\ UNCHANGED cmd_vars
    /\ aborted' = FALSE
    /\ last' = [NoCall EXCEPT
                    !.op = "mem_find_address", !.addr = addr,
                    !.halted_before = halted,
                    !.ptr = find_address(mem_regions, num_mem_regions, addr)]
    /\ UNCHANGED <<num_mem_regions, mem_regions, heap, halted, pc, regs,
                   open_files, load_state>>

\* a call of a command that returns before its loop
CommandReturns(op) ==
    /\ last' = [NoCall EXCEPT !.op = op, !.halted_before = halted,
                              !.count_before = instr_count]
    /\ UNCHANGED <<num_mem_regions, mem_regions, heap, halted, pc, regs,
                   open_files, aborted, load_state, cmd_vars>>

\* static void run_simulator(cpu_state) on the instruction instr:
\* process_instruction(cpu_state), then instr_count += 1
run_simulator(instr) ==
    /\ instr_count < MaxInstrCount
    /\ LET r == process_instruction(instr, mem_regions, num_mem_regions, heap)
       IN  /\ heap' = r.heap
           /\ halted' = (halted \/ r.halted)
           /\ Return([NoCall EXCEPT
                          !.op = "process_instruction",
                          !.executed = last.executed + 1,
                          !.count_before = last.count_before,
                          !.first_halt =
                              IF last.first_halt = 0 /\ ~halted /\ r.halted
                              THEN last.executed + 1 ELSE last.first_halt],
                     r.ub)
    /\ instr_count' = instr_count + 1
    /\ UNCHANGED <<num_mem_regions, mem_regions, pc, regs, open_files,
                   load_state>>

\* void command_step(cpu_state, args, num_args) up to its loop
command_step(args) ==
    /\ ~aborted /\ running = "none"
    /\ IF Len(args) > STEP_MAX_NUM_ARGS
       THEN CommandReturns("command_step")
       ELSE IF Len(args) # 0 /\ parse_int(args[1], 1).rc < 0
       THEN CommandReturns("command_step")
       ELSE IF halted
       THEN CommandReturns("command_step")
       ELSE /\ running' = "step"
            /\ loop_num_cycles' = IF Len(args) # 0
                                  THEN parse_int(args[1], 1).value ELSE 1
            /\ loop_i' = 0
            /\ last' = [NoCall EXCEPT !.op = "command_step",
                                      !.returned = FALSE,
                                      !.halted_before = halted,
                                      !.count_before = instr_count]
            /\ UNCHANGED <<num_mem_regions, mem_regions, heap, halted, pc,
                           regs, open_files, aborted, load_state,
                           instr_count>>

\* the loop of command_step: one iteration, or the return
command_step_loop ==
    /\ ~aborted /\ running = "step"
    /\ IF step_condition(loop_i, loop_num_cycles, halted)
       THEN /\ \E instr \in Instructions : run_simulator(instr)
            /\ loop_i' = loop_i + 1
            /\ UNCHANGED <<running, loop_num_cycles>>
       ELSE /\ running' = "none"
            /\ loop_num_cycles' = 0
            /\ loop_i' = 0
            /\ last' = [NoCall EXCEPT !.op = "command_step",
                                      !.value = loop_num_cycles,
                                      !.executed = last.executed,
                                      !.count_before = last.count_before,
                                      !.first_halt = last.first_halt,
                                      !.halted_before = halted]
            /\ UNCHANGED <<num_mem_regions, mem_regions, heap, halted, pc,
                           regs, open_files, aborted, load_state,
                           instr_count>>

\* void command_go(cpu_state, args, num_args) up to its loop
command_go(args) ==
    /\ ~aborted /\ running = "none"
    /\ IF Len(args) # GO_NUM_ARGS
       THEN CommandReturns("command_go")
       ELSE IF halted
       THEN CommandReturns("command_go")
       ELSE /\ running' = "go"
            /\ last' = [NoCall EXCEPT !.op = "command_go",
                                      !.returned = FALSE,
                                      !.halted_before = halted,
                                      !.count_before = instr_count]
            /\ UNCHANGED <<num_mem_regions, mem_regions, heap, halted, pc,
                           regs, open_files, aborted, load_state,
                           instr_count, loop_num_cycles, loop_i>>

\* the loop of command_go: one iteration, or the return
command_go_loop ==
    /\ ~aborted /\ running = "go"
    /\ IF go_condition(halted)
       THEN /\ \E instr \in Instructions : run_simulator(instr)
            /\ UNCHANGED <<running, loop_num_cycles, loop_i>>
       ELSE /\ running' = "none"
            /\ last' = [NoCall EXCEPT !.op = "command_go",
                                      !.executed = last.executed,
                                      !.count_before = last.count_before,
                                      !.first_halt = last.first_halt,
                                      !.halted_before = halted]
            /\ UNCHANGED <<num_mem_regions, mem_regions, heap, halted, pc,
                           regs, open_files, aborted, load_state,
                           instr_count, loop_num_cycles, loop_i>>

Next ==
    \/ \E program \in Programs : mem_load_program(program)
    \/ mem_unload_program
    \/ \E addr \in ReadAddrs : mem_read32(addr)
    \/ \E addr \in AddrSamples, value \in WriteValues : mem_write32(addr, value)
    \/ \E range \in RangeSamples : mem_range_valid(range[1], range[2])
    \/ \E addr \in FindAddrs : mem_find_address(addr)
    \/ \E args \in StepArgs : command_step(args)
    \/ command_step_loop
    \/ \E args \in GoArgs : command_go(args)
    \/ command_go_loop

Spec == Init /\ [][Next]_vars

\* a command that was called keeps running: its loop goes on to the next
\* iteration or to the return
FairSpec ==
    Spec /\ WF_vars(command_step_loop) /\ WF_vars(command_go_loop)

(***************************************************************************)
(* Properties                                                              *)
(***************************************************************************)
\* the most recent call was mem_load_program and it returned an error
LoadFailed ==
    last.op = "mem_load_program" /\ last.returned /\ last.ret < 0

\* the most recent call was mem_load_program and it returned 0
LoadSucceeded ==
    last.op = "mem_load_program" /\ last.returned /\ last.ret = 0

\* the buffers the most recent mem_load_program allocated
LoadBuffers == {b \in DOMAIN heap : heap[b].cur}

\* C1: when mem_load_program returns an error, every buffer it allocated
\* during that call has been freed exactly once: none of them is still
\* allocated
C1_FailedLoadFreesItsBuffers ==
    LoadFailed =>
        \A b \in LoadBuffers : ~heap[b].live /\ heap[b].nfree = 1

\* a load that failed at the kernel data region, on an oversize file or on
\* a malformed line, after the four regions before it had been allocated
C1_Witness ==
    /\ LoadFailed
    /\ Cardinality(LoadBuffers) >= 4
    /\ last.ret \in {-EFBIG, -EINVAL}
    /\ \A b \in LoadBuffers : ~heap[b].live /\ heap[b].nfree = 1

\* C2: after mem_load_program returned an error, mem_find_address reports
\* no mapping for any address, and no region of the table keeps a non-zero
\* size or a pointer to a buffer
C2_NoStateAfterFailedLoad ==
    LoadFailed =>
        /\ \A addr \in Addr :
               find_address(mem_regions, num_mem_regions, addr) = NullPtr
        /\ \A i \in 1 .. num_mem_regions :
               mem_regions[i].size = 0 /\ mem_regions[i].mem = NULL

\* C3: mem_unload_program called again after a successful load was unloaded
\* frees nothing: every buffer of that load has been freed exactly once
C3_UnloadIdempotent ==
    load_state = "unloaded" =>
        \A b \in LoadBuffers : ~heap[b].live /\ heap[b].nfree = 1

\* addr lies outside [base_addr, base_addr + size) of every region
Unmapped(addr) ==
    \A i \in 1 .. num_mem_regions :
        ~ (/\ mem_regions[i].base_addr <= addr
           /\ addr < mem_regions[i].base_addr + mem_regions[i].size)

\* addr lies between size and max_size of a region
InHeadroom(addr) ==
    \E i \in 1 .. num_mem_regions :
        /\ mem_regions[i].base_addr + mem_regions[i].size <= addr
        /\ addr < mem_regions[i].base_addr + mem_regions[i].max_size

\* C4: for an address outside every region's [base_addr, base_addr + size),
\* the headroom up to max_size included, mem_find_address returns NULL,
\* mem_read32 returns 0 and sets halted, and mem_write32 sets halted and
\* changes no byte of any buffer
C4_UnmappedAddressHalts ==
    [][(/\ last'.op \in {"mem_find_address", "mem_read32", "mem_write32"}
        /\ Unmapped(last'.addr))
       => /\ last'.ptr = NullPtr
          /\ last'.op = "mem_read32" => (last'.ret = 0 /\ halted')
          /\ last'.op = "mem_write32" => (halted' /\ heap' = heap)]_vars

\* mem_write32 to an address in the headroom of a region of a loaded program
\* halted the processor
C4_Witness ==
    /\ last.op = "mem_write32"
    /\ load_state = "loaded"
    /\ Unmapped(last.addr) /\ InHeadroom(last.addr)
    /\ halted /\ ~last.halted_before

\* C5: after a successful load, for every region r and every address addr
\* with r.base_addr <= addr < r.base_addr + r.size, mem_find_address returns
\* the position addr - r.base_addr of r's own buffer
C5_FindAddressOwnRegion ==
    load_state = "loaded" =>
        \A i \in 1 .. num_mem_regions : \A addr \in Addr :
            (/\ mem_regions[i].base_addr <= addr
             /\ addr < mem_regions[i].base_addr + mem_regions[i].size)
            => find_address(mem_regions, num_mem_regions, addr)
                   = [buf |-> mem_regions[i].mem,
                      off |-> addr - mem_regions[i].base_addr]

\* mem_find_address returned the fifth byte of the stack region's buffer
C5_Witness ==
    /\ load_state = "loaded"
    /\ last.op = "mem_find_address"
    /\ last.addr = STACK_START + 4
    /\ last.ptr = [buf |-> mem_regions[3].mem, off |-> 4]
    /\ mem_regions[3].mem # mem_regions[1].mem

\* C6: mem_write32(addr, v) to a 4-byte aligned address inside a region of
\* a loaded program, followed by mem_read32(addr), returns v and does not
\* set halted
C6_WriteReadRoundTrip ==
    [][(/\ last.op = "mem_write32" /\ last.returned
        /\ load_state = "loaded"
        /\ last.addr % 4 = 0 /\ ~Unmapped(last.addr)
        /\ last'.op = "mem_read32" /\ last'.addr = last.addr)
       => (last'.ret = last.value /\ halted' = halted)]_vars

\* mem_read32 returned 0x11223344, which no record file holds, from the
\* second word of the user text region of a loaded program
C6_Witness ==
    /\ last.op = "mem_read32" /\ last.returned
    /\ load_state = "loaded"
    /\ last.addr = USER_TEXT_START + 4 /\ ~Unmapped(last.addr)
    /\ last.ret = Word11223344
    /\ last.ub = {}
    /\ ~halted

\* the four bytes of the buffer the most recent call's pointer points to
BytesAtPtr ==
    SubSeq(heap[last.ptr.buf].data, last.ptr.off + 1, last.ptr.off + 4)

\* C7: a successful mem_write32(addr, v) leaves byte k (k = 0..3) of the
\* buffer at offset + k equal to bits 8k..8k+7 of v: 0x11223344 leaves the
\* bytes 0x44, 0x33, 0x22, 0x11 in ascending address order
C7_LittleEndian ==
    (/\ last.op = "mem_write32" /\ last.returned
     /\ last.ptr # NullPtr /\ last.ub = {})
    => /\ \A k \in 0 .. 3 :
              BytesAtPtr[k + 1] = (last.value \div 2 ^ (8 * k)) % 2 ^ 8
       /\ last.value = Word11223344 => BytesAtPtr = <<68, 51, 34, 17>>

\* mem_write32 wrote 0x11223344 into a buffer
C7_Witness ==
    /\ last.op = "mem_write32" /\ last.returned
    /\ last.ptr # NullPtr /\ last.ub = {}
    /\ ~halted
    /\ last.value = Word11223344
    /\ BytesAtPtr = <<68, 51, 34, 17>>

\* C8: after mem_load_program succeeded, pc is the user text region's
\* base_addr, x2 (sp) the stack region's base_addr + size and x3 (gp) the
\* user data region's base_addr
C8_RegistersAfterLoad ==
    LoadSucceeded =>
        /\ mem_regions[1].hex_extension = ".text.hex"
        /\ pc = mem_regions[1].base_addr
        /\ mem_regions[3].hex_extension = NO_EXTENSION
        /\ regs[REG_SP] = mem_regions[3].base_addr + mem_regions[3].size
        /\ mem_regions[2].hex_extension = ".data.hex"
        /\ regs[REG_GP] = mem_regions[2].base_addr

\* the load of the program with nothing wrong in its record files succeeded
C8_Witness ==
    /\ LoadSucceeded
    /\ last.program = GoodProgram /\ last.ub = {}
    /\ pc = USER_TEXT_START
    /\ regs[REG_SP] = STACK_END
    /\ regs[REG_GP] = USER_DATA_START

\* C9: for start < end, mem_range_valid(start, end) returns true if and
\* only if one region r has r.base_addr <= start and
\* end < r.base_addr + r.size
C9_RangeValidIffInsideOneRegion ==
    (last.op = "mem_range_valid" /\ last.returned)
    => (last.ret = 1 <=>
            \E i \in 1 .. num_mem_regions :
                /\ mem_regions[i].base_addr <= last.addr
                /\ last.end_addr
                       < mem_regions[i].base_addr + mem_regions[i].size)

\* whether a record file holds a line that is no unsigned 32-bit
\* hexadecimal literal
HasMalformedLine(bytes) ==
    \E i \in 1 .. Len(bytes) :
        /\ i = 1 \/ bytes[i - 1] = "\n"
        /\ LET nl == NextNewline(bytes, i)
               end == IF nl = 0 THEN Len(bytes) ELSE nl - 1
           IN  parse_uint32_hex(SubSeq(bytes, i, end)).rc < 0

\* C10: a record file with a malformed line makes mem_load_program fail,
\* whichever line it is, the last one with or without a newline included
C10_MalformedLineFailsLoad ==
    (/\ last.op = "mem_load_program" /\ last.returned
     /\ \E ext \in HexExtensions :
            /\ File(last.program[ext]).exists
            /\ HasMalformedLine(File(last.program[ext]).bytes))
    => last.ret < 0

\* the decoded size (file_bytes / 9) * 4 of region i's record file in
\* `program` exceeds the region's max_size
Oversize(i, program) ==
    /\ MEM_REGIONS[i].hex_extension # NO_EXTENSION
    /\ File(program[MEM_REGIONS[i].hex_extension]).exists
    /\ (Len(File(program[MEM_REGIONS[i].hex_extension]).bytes)
            \div MEM_FILE_LINE_LEN) * 4 > MEM_REGIONS[i].max_size

\* the most recent mem_load_program got as far as region i: the regions
\* before it were allocated
LoadReached(i) ==
    /\ last.op = "mem_load_program" /\ last.returned
    /\ \A j \in 1 .. i - 1 : mem_regions[j].mem # NULL

C14_SizeWithinMaxSize ==
    \A i \in 1 .. num_mem_regions :
        mem_regions[i].size <= mem_regions[i].max_size

\* the regions that contain addr
RegionsOf(addr) ==
    {i \in 1 .. num_mem_regions :
        /\ mem_regions[i].base_addr <= addr
        /\ addr < mem_regions[i].base_addr + mem_regions[i].size}

\* C15: after a successful load the regions are in ascending order and
\* pairwise disjoint, region i ending at or before the base of region i + 1,
\* so that at most one region contains any address
C15_RegionsAscendingDisjoint ==
    load_state = "loaded"
    => /\ num_mem_regions = NUM_MEM_REGIONS
       /\ \A i \in 1 .. NUM_MEM_REGIONS - 1 :
              mem_regions[i].base_addr + mem_regions[i].size
                  <= mem_regions[i + 1].base_addr
       /\ \A addr \in Addr : Cardinality(RegionsOf(addr)) <= 1

\* a load succeeded, every region has bytes, and an address of the stack
\* lies in the stack region only
C15_Witness ==
    /\ LoadSucceeded
    /\ load_state = "loaded"
    /\ \A i \in RegionIdx : mem_regions[i].size > 0
    /\ RegionsOf(STACK_START + 4) = {3}

\* C17: mem_range_valid returns false, as an ordinary result, for every
\* pair with start_addr >= end_addr
C17_EmptyRangeReturnsFalse ==
    (last.op = "mem_range_valid" /\ last.addr >= last.end_addr)
    => (last.returned /\ last.ret = 0 /\ ~aborted)

\* C18: mem_read32 and mem_write32 set halted when the address is not a
\* multiple of 4
C18_UnalignedAddressHalts ==
    (/\ last.op \in {"mem_read32", "mem_write32"}
     /\ last.returned
     /\ last.addr % 4 # 0)
    => halted

\* C20: in every reachable state, base_addr + size of every region does not
\* overflow 32 bits
C20_RegionEndDoesNotOverflow ==
    \A i \in 1 .. num_mem_regions :
        /\ mem_regions[i].base_addr + mem_regions[i].size <= UINT32_MAX
        /\ U32(mem_regions[i].base_addr + mem_regions[i].size)
               >= mem_regions[i].base_addr

\* the values of the lines of a record file from byte `pos` on, in order
RECURSIVE FileWords(_, _)
FileWords(bytes, pos) ==
    IF getline(bytes, pos).rc < 0 THEN <<>>
    ELSE <<parse_uint32_hex(SubSeq(getline(bytes, pos).line, 1,
                 strcspn_crlf(getline(bytes, pos).line))).value>>
             \o FileWords(bytes, getline(bytes, pos).pos)

\* mem_read32(base_addr + 4 * i) of region r returns the value of line i of
\* the region's record file, for every line i, and does not halt
RegionHoldsFile(r, bytes) ==
    \A k \in 1 .. Len(FileWords(bytes, 0)) :
        /\ read32(mem_regions, num_mem_regions, heap,
                  mem_regions[r].base_addr + 4 * (k - 1)).rets
               = {FileWords(bytes, 0)[k]}
        /\ ~read32(mem_regions, num_mem_regions, heap,
                   mem_regions[r].base_addr + 4 * (k - 1)).halted

\* C16: after a successful load of a record file with n well-formed lines,
\* mem_read32(base_addr + 4 * i) returns the value of line i for every i < n
C16_LoadedWordsReadBack ==
    LoadSucceeded
    => \A r \in RegionIdx :
           (/\ MEM_REGIONS[r].hex_extension # NO_EXTENSION
            /\ ~HasMalformedLine(
                    File(last.program[MEM_REGIONS[r].hex_extension]).bytes))
           => RegionHoldsFile(r,
                  File(last.program[MEM_REGIONS[r].hex_extension]).bytes)

\* C12: the halt flag is monotonic: once halted is true, no mem_read32,
\* mem_write32, mem_range_valid, mem_unload_program, command_step or
\* command_go (nor any other step of the model) makes it false
C12_HaltedMonotonic ==
    [][halted => halted']_vars

\* command_go was called on a halted processor, after a program had been
\* loaded, and returned with the flag still set
C12_Witness ==
    /\ last.op = "command_go" /\ last.returned
    /\ last.halted_before /\ halted
    /\ load_state = "loaded"

\* C13: command_step and command_go never call process_instruction in a
\* state where halted is true
C13_NoInstructionWhileHalted ==
    last.op = "process_instruction" => ~last.halted_before

\* command_step 2 returned after one instruction, which set halted
C13_Witness ==
    /\ last.op = "command_step" /\ last.returned
    /\ last.value = 2 /\ last.executed = 1
    /\ halted

\* C19: command_go with no arguments on a processor that is not halted runs
\* instructions until halted is set: it returns only in a state where halted
\* is true, and it does return once an instruction has set halted
C19_GoRunsUntilHalted ==
    /\ [][(running = "go" /\ running' = "none") => halted']_vars
    /\ (running = "go" /\ halted) ~> (running = "none")

\* command_go returned after two instructions, the second of which set
\* halted
C19_Witness ==
    /\ last.op = "command_go" /\ last.returned
    /\ last.executed = 2
    /\ halted

\* C21: mem_load_program sets pc, x2 (sp) and x3 (gp) to USER_TEXT_START,
\* STACK_END and USER_DATA_START on every return, a failed load included
C21_RegistersSetOnEveryReturn ==
    (last.op = "mem_load_program" /\ last.returned)
    => /\ pc = USER_TEXT_START
       /\ regs[REG_SP] = STACK_END
       /\ regs[REG_GP] = USER_DATA_START

\* the first load of the run failed on a missing .text.hex, before any
\* region was allocated, and pc, sp and gp hold the layout constants
C21_Witness ==
    /\ LoadFailed /\ last.ret = -ENOENT
    /\ heap = <<>>
    /\ pc = USER_TEXT_START /\ pc # 0
    /\ regs[REG_SP] = STACK_END
    /\ regs[REG_GP] = USER_DATA_START

\* C22: while a record file is loaded, every word write stays inside the
\* region's buffer, whatever the file's content
C22_LoadWritesInsideBuffer ==
    last.op = "mem_load_program" => "out_of_bounds" \notin last.ub

\* C23: for every address at which translation succeeds, the four bytes
\* mem_read32 or mem_write32 touches, offsets addr - base_addr ..
\* addr - base_addr + 3, lie inside the owning region's buffer of `size` bytes
C23_AccessInsideBuffer ==
    (/\ last.op \in {"mem_read32", "mem_write32"}
     /\ last.ptr # NullPtr)
    => \E r \in 1 .. num_mem_regions :
           /\ mem_regions[r].mem = last.ptr.buf
           /\ mem_regions[r].base_addr <= last.addr
           /\ last.ptr.off = last.addr - mem_regions[r].base_addr
           /\ last.ptr.off + 3 < mem_regions[r].size

\* C24: after mem_load_program returns, no record file is left open
C24_NoFileLeftOpen ==
    (last.op = "mem_load_program" /\ last.returned) => open_files = 0

\* C25: every buffer that is allocated and not yet freed is referenced by
\* exactly one region of the table
C25_LiveBufferHasOneRegion ==
    \A b \in DOMAIN heap :
        heap[b].live
        => Cardinality({r \in 1 .. num_mem_regions :
                            mem_regions[r].mem = b}) = 1

\* the instructions a command_step with cycle count n executes when the
\* first instruction that sets halted is instruction k (k = 0: none does)
MinNK(n, k) ==
    IF n <= 0 THEN 0 ELSE IF k = 0 \/ n <= k THEN n ELSE k

\* C26: command_step with cycle count n on a processor that is not halted
\* executes exactly min(n, k) instructions, k the index of the first
\* instruction that sets halted, and instr_count grows by the number of
\* instructions executed; on a halted processor it executes none and leaves
\* instr_count unchanged
C26_StepExecutesMinNK ==
    (last.op = "command_step" /\ last.returned)
    => /\ last.executed = MinNK(last.value, last.first_halt)
       /\ instr_count = last.count_before + last.executed
       /\ (halted /\ last.first_halt = 0)
              => (last.executed = 0 /\ instr_count = last.count_before)

\* command_step 2, called after one instruction had been executed, returned
\* after its first instruction, which set halted
C26_Witness ==
    /\ last.op = "command_step" /\ last.returned
    /\ last.value = 2 /\ last.first_halt = 1 /\ last.executed = 1
    /\ last.count_before = 1 /\ instr_count = 2
    /\ halted

\* everything but the heap and the record of the most recent call
FrameVars ==
    <<num_mem_regions, mem_regions, halted, pc, regs, open_files, aborted,
      load_state, instr_count, running, loop_num_cycles, loop_i>>

\* the step changed, of the heap, exactly the four bytes at pointer p, which
\* lie inside p's buffer
OnlyWordChanged(p) ==
    /\ p.buf \in DOMAIN heap
    /\ WordInBuffer(Len(heap[p.buf].data), p.off)
    /\ DOMAIN heap' = DOMAIN heap
    /\ \A b \in DOMAIN heap :
           /\ [heap'[b] EXCEPT !.data = <<>>] = [heap[b] EXCEPT !.data = <<>>]
           /\ Len(heap'[b].data) = Len(heap[b].data)
           /\ \A k \in 1 .. Len(heap[b].data) :
                  (b # p.buf \/ k <= p.off \/ k > p.off + 4)
                  => heap'[b].data[k] = heap[b].data[k]

\* C27: a mem_write32 whose translation succeeds changes only the four
\* backing bytes at the translated offset of the owning region; every other
\* byte, every region's base_addr, max_size and size, the halt flag, pc and
\* the registers are unchanged; a mem_read32 whose translation succeeds
\* changes nothing
C27_WriteChangesOnlyFourBytes ==
    [][/\ (last'.op = "mem_write32" /\ last'.ptr # NullPtr)
              => (UNCHANGED FrameVars /\ OnlyWordChanged(last'.ptr))
       /\ (last'.op = "mem_read32" /\ last'.ptr # NullPtr)
              => (UNCHANGED FrameVars /\ UNCHANGED heap)]_vars

====
